---- MODULE Spec2Model ----
(***************************************************************************)
(* Model of create_thumbnail.py: the mods conversion helpers, the          *)
(* create_thumbnail pipeline (metadata, API data, background, avatar,      *)
(* difficulty resolution, score lookup, true-FC heuristic, modded stars,   *)
(* drawing and saving), Worker.run around it, and the window with its      *)
(* worker threads.                                                         *)
(*                                                                         *)
(* Spec follows one Worker.run through create_thumbnail; GuiSpec follows   *)
(* the window, its threads and the slot calls queued between them, with    *)
(* create_thumbnail reduced to its outcome.                                *)
(*                                                                         *)
(* Strings are sequences of one-character strings, so that "".join, strip  *)
(* and lower are computed rather than assumed.  Star ratings are in        *)
(* hundredths of a star and PP values in whole PP units.  The answers of   *)
(* the external services (render service, osu! API, mirror, PP library,    *)
(* file system) are fixed in Init and read by the pipeline as it runs.     *)
(***************************************************************************)
EXTENDS Integers, Sequences, FiniteSets, TLC

(* ---------------- bounds ---------------- *)
MaxModsLen == 2
MaxMaps == 2
MaxSide == 3
MaxThreads == 3

(* Python None for optional integer fields (never a legal value of one). *)
None == -100

(* ---------------- class Mods(IntFlag) ---------------- *)
NoMod == 0
NoFail == 1
Easy == 2
TouchDevice == 4
Hidden == 8
HardRock == 16
SuddenDeath == 32
DoubleTime == 64
Relax == 128
HalfTime == 256
Nightcore == 512
Flashlight == 1024
Autoplay == 2048
SpunOut == 4096
Relax2 == 8192
Perfect == 16384
Key4 == 32768
Key5 == 65536
Key6 == 131072
Key7 == 262144
Key8 == 524288
FadeIn == 1048576
Random == 2097152
Cinema == 4194304
Target == 8388608
Key9 == 16777216
KeyCoop == 33554432
Key1 == 67108864
Key3 == 134217728
Key2 == 268435456
ScoreV2 == 536870912
Mirror == 1073741824

(* `flag in value` for a single-bit flag, and `value |= flag`. *)
HasFlag(value, flag) == (value \div flag) % 2 = 1
OrFlag(value, flag) == IF HasFlag(value, flag) THEN value ELSE value + flag

(* Two-letter mod codes as strings of characters. *)
Code(a, b) == <<a, b>>
NM == Code("N", "M")

(* MOD_STRING_TO_ENUM.get(mod_str): the flag of a code, None if unknown. *)
MOD_STRING_TO_ENUM(s) ==
    CASE s = Code("N", "F") -> NoFail
      [] s = Code("E", "Z") -> Easy
      [] s = Code("T", "D") -> TouchDevice
      [] s = Code("H", "D") -> Hidden
      [] s = Code("H", "R") -> HardRock
      [] s = Code("S", "D") -> SuddenDeath
      [] s = Code("D", "T") -> DoubleTime
      [] s = Code("R", "X") -> Relax
      [] s = Code("H", "T") -> HalfTime
      [] s = Code("N", "C") -> Nightcore
      [] s = Code("F", "L") -> Flashlight
      [] s = Code("A", "U") -> Autoplay
      [] s = Code("S", "O") -> SpunOut
      [] s = Code("A", "P") -> Relax2
      [] s = Code("P", "F") -> Perfect
      [] s = Code("K", "4") -> Key4
      [] s = Code("K", "5") -> Key5
      [] s = Code("K", "6") -> Key6
      [] s = Code("K", "7") -> Key7
      [] s = Code("K", "8") -> Key8
      [] s = Code("F", "I") -> FadeIn
      [] s = Code("R", "D") -> Random
      [] s = Code("C", "N") -> Cinema
      [] s = Code("T", "P") -> Target
      [] s = Code("K", "9") -> Key9
      [] s = Code("K", "C") -> KeyCoop
      [] s = Code("K", "1") -> Key1
      [] s = Code("K", "3") -> Key3
      [] s = Code("K", "2") -> Key2
      [] s = Code("V", "2") -> ScoreV2
      [] s = Code("M", "R") -> Mirror
      [] OTHER -> None

(* "".join(list_of_strings) *)
RECURSIVE Join(_)
Join(list) == IF list = <<>> THEN <<>> ELSE Head(list) \o Join(Tail(list))

(* `if flag in mods_enum_flag: mod_strings.append(code)` *)
Append1(value, flag, code) == IF HasFlag(value, flag) THEN <<code>> ELSE <<>>

(* The NC/DT and PF/SD branches of get_mods_string. *)
SpeedCodesBothListed(value) ==
    Append1(value, Nightcore, Code("N", "C")) \o Append1(value, DoubleTime, Code("D", "T"))

SpeedCodes(value) ==
    IF HasFlag(value, Nightcore) THEN <<Code("N", "C")>>
    ELSE IF HasFlag(value, DoubleTime) THEN <<Code("D", "T")>>
    ELSE <<>>

FailCodesSuddenDeathFirst(value) ==
    IF HasFlag(value, SuddenDeath) THEN <<Code("S", "D")>>
    ELSE IF HasFlag(value, Perfect) THEN <<Code("P", "F")>>
    ELSE <<>>

FailCodes(value) ==
    IF HasFlag(value, Perfect) THEN <<Code("P", "F")>>
    ELSE IF HasFlag(value, SuddenDeath) THEN <<Code("S", "D")>>
    ELSE <<>>

(* mod_strings of get_mods_string, in display order. *)
ModStrings(value) ==
       Append1(value, Easy, Code("E", "Z"))
    \o Append1(value, NoFail, Code("N", "F"))
    \o Append1(value, HalfTime, Code("H", "T"))
    \o SpeedCodes(value)
    \o Append1(value, Hidden, Code("H", "D"))
    \o Append1(value, HardRock, Code("H", "R"))
    \o FailCodes(value)
    \o Append1(value, Flashlight, Code("F", "L"))
    \o Append1(value, Relax, Code("R", "X"))
    \o Append1(value, Relax2, Code("A", "P"))
    \o Append1(value, SpunOut, Code("S", "O"))
    \o Append1(value, TouchDevice, Code("T", "D"))
    \o Append1(value, Cinema, Code("C", "N"))
    \o Append1(value, ScoreV2, Code("V", "2"))
    \o Append1(value, Mirror, Code("M", "R"))
    \o Append1(value, Key1, Code("K", "1"))
    \o Append1(value, Key2, Code("K", "2"))
    \o Append1(value, Key3, Code("K", "3"))
    \o Append1(value, Key4, Code("K", "4"))
    \o Append1(value, Key5, Code("K", "5"))
    \o Append1(value, Key6, Code("K", "6"))
    \o Append1(value, Key7, Code("K", "7"))
    \o Append1(value, Key8, Code("K", "8"))
    \o Append1(value, Key9, Code("K", "9"))
    \o Append1(value, KeyCoop, Code("K", "C"))
    \o Append1(value, Random, Code("R", "D"))
    \o Append1(value, FadeIn, Code("F", "I"))
    \o Append1(value, Target, Code("T", "P"))

(* get_mods_string(mods_enum), for a non-negative integer (Mods(mods_enum)  *)
(* accepts every integer, so the ValueError branch is not taken).           *)
get_mods_string(mods_enum) ==
    IF mods_enum = NoMod THEN NM
    ELSE IF ModStrings(mods_enum) # <<>> THEN Join(ModStrings(mods_enum)) ELSE NM

(* `x in mod_list` *)
InList(x, mod_list) == \E i \in 1..Len(mod_list) : mod_list[i] = x

(* The for loop of get_mods_enum_from_list over mod_list[i..]. *)
RECURSIVE ModsLoop(_, _, _)
ModsLoop(mod_list, i, final_enum) ==
    IF i > Len(mod_list) THEN final_enum
    ELSE LET mod_str == mod_list[i]
             has_nc == InList(Code("N", "C"), mod_list)
             has_dt == InList(Code("D", "T"), mod_list)
             has_pf == InList(Code("P", "F"), mod_list)
             has_sd == InList(Code("S", "D"), mod_list)
             enum_val == MOD_STRING_TO_ENUM(mod_str)
         IN  IF mod_str = Code("N", "C") /\ has_dt
               THEN ModsLoop(mod_list, i + 1, OrFlag(final_enum, Nightcore))
             ELSE IF mod_str = Code("D", "T") /\ has_nc
               THEN ModsLoop(mod_list, i + 1, final_enum)
             ELSE IF mod_str = Code("P", "F") /\ has_sd
               THEN ModsLoop(mod_list, i + 1, OrFlag(final_enum, Perfect))
             ELSE IF mod_str = Code("S", "D") /\ has_pf
               THEN ModsLoop(mod_list, i + 1, final_enum)
             ELSE IF enum_val # None
               THEN ModsLoop(mod_list, i + 1, OrFlag(final_enum, enum_val))
             ELSE ModsLoop(mod_list, i + 1, final_enum)

(* The closing "NC includes DT, PF includes SD" step. *)
ImplyCombinedSkipped(final_enum) == final_enum

ImplyCombined(final_enum) ==
    LET withDT == IF HasFlag(final_enum, Nightcore)
                    THEN OrFlag(final_enum, DoubleTime) ELSE final_enum
    IN  IF HasFlag(withDT, Perfect) THEN OrFlag(withDT, SuddenDeath) ELSE withDT

get_mods_enum_from_list(mod_list) == ImplyCombined(ModsLoop(mod_list, 1, NoMod))

(* ---------------- difficulty names ---------------- *)
Upper == <<"A","B","C","D","E","F","G","H","I","J","K","L","M",
           "N","O","P","Q","R","S","T","U","V","W","X","Y","Z">>
LowerLetters == <<"a","b","c","d","e","f","g","h","i","j","k","l","m",
                  "n","o","p","q","r","s","t","u","v","w","x","y","z">>

LowerChar(c) ==
    IF \E i \in 1..26 : Upper[i] = c
      THEN LowerLetters[CHOOSE i \in 1..26 : Upper[i] = c]
      ELSE c

(* str.lower() *)
Lower(s) == [i \in 1..Len(s) |-> LowerChar(s[i])]

(* str.strip(), for the space character *)
RECURSIVE LStrip(_)
LStrip(s) == IF s # <<>> /\ Head(s) = " " THEN LStrip(Tail(s)) ELSE s

RECURSIVE RStrip(_)
RStrip(s) == IF s # <<>> /\ s[Len(s)] = " " THEN RStrip(SubSeq(s, 1, Len(s) - 1)) ELSE s

Strip(s) == RStrip(LStrip(s))

(* The comparison of line 1126: x.strip().lower() *)
NormalizeName(s) == Lower(Strip(s))

(* ---------------- difficulty resolution ---------------- *)
(* abs() of a difference in hundredths of a star *)
Abs(x) == IF x < 0 THEN -x ELSE x

(* First loop (lines 1124-1143): index of the first beatmap whose version   *)
(* equals the target name after strip().lower(); 0 when the loop ends       *)
(* without a break.                                                         *)
RECURSIVE NameMatchLast(_, _, _)
NameMatchLast(beatmaps, i, target) ==
    IF i > Len(beatmaps) THEN 0
    ELSE LET later == NameMatchLast(beatmaps, i + 1, target)
         IN  IF later # 0 THEN later
             ELSE IF NormalizeName(beatmaps[i].version) = NormalizeName(target) THEN i
             ELSE 0

RECURSIVE NameMatch(_, _, _)
NameMatch(beatmaps, i, target) ==
    IF i > Len(beatmaps) THEN 0
    ELSE IF NormalizeName(beatmaps[i].version) = NormalizeName(target) THEN i
    ELSE NameMatch(beatmaps, i + 1, target)

(* Second loop (lines 1149-1157): closest_map and min_diff after visiting   *)
(* beatmaps[i..]; closest = 0 stands for closest_map None, min_diff inf.    *)
StarsCloser(diff, closest, min_diff) == closest = 0 \/ diff < min_diff

RECURSIVE ClosestLoop(_, _, _, _, _)
ClosestLoop(beatmaps, i, base, closest, min_diff) ==
    IF i > Len(beatmaps) THEN [closest |-> closest, min_diff |-> min_diff]
    ELSE LET api_stars == beatmaps[i].difficulty_rating
             diff == Abs(api_stars - base)
         IN  IF api_stars # 0 /\ StarsCloser(diff, closest, min_diff)
               THEN ClosestLoop(beatmaps, i + 1, base, i, diff)
               ELSE ClosestLoop(beatmaps, i + 1, base, closest, min_diff)

(* `closest_map and min_diff < 0.1` *)
StarTolerance == 10

WithinToleranceWide(closest, min_diff) == closest # 0 /\ min_diff < 3 * StarTolerance

WithinTolerance(closest, min_diff) == closest # 0 /\ min_diff < StarTolerance

(* Lines 1131-1135 and 1164-1168: `if api_stars:` ... `if stars == 0.0:` *)
BaseStarsAlways(api_stars, stars0) == IF api_stars # 0 THEN api_stars ELSE stars0

BaseStars(api_stars, stars0) ==
    IF api_stars # 0 /\ stars0 = 0 THEN api_stars ELSE stars0

(* Lines 1116-1178: the outcome of both matching steps.  `stars` is the     *)
(* value initialised from the description; it is replaced by the matched    *)
(* beatmap's base rating only if it was 0.                                  *)
ResolveDifficulty(beatmaps, target, base_stars_from_desc, stars0) ==
    LET m == NameMatch(beatmaps, 1, target)
        c == ClosestLoop(beatmaps, 1, base_stars_from_desc, 0, 0)
        pick(i, how) ==
            [found_map |-> TRUE, how |-> how, index |-> i,
             beatmap_id |-> beatmaps[i].id,
             beatmap_max_combo |-> beatmaps[i].max_combo,
             stars |-> BaseStars(beatmaps[i].difficulty_rating, stars0)]
        miss == [found_map |-> FALSE, how |-> "none", index |-> 0,
                 beatmap_id |-> None, beatmap_max_combo |-> None, stars |-> stars0]
    IN  IF m # 0 THEN pick(m, "name")
        ELSE IF base_stars_from_desc > 0
          THEN IF WithinTolerance(c.closest, c.min_diff)
                 THEN pick(c.closest, "stars") ELSE miss
        ELSE miss

(* ---------------- mods reconciliation (lines 1217-1234) ---------------- *)
(* `elif not api_mods_list and mods_str != "NM"`: keep the ORDR values *)
KeepOrdrModsWhenEmpty(api_list, cur_mods_str) == api_list = <<>>

KeepOrdrMods(api_list, cur_mods_str) == api_list = <<>> /\ cur_mods_str # NM

ModsOverrideKeepEnum(api_list, cur_mods_str, cur_enum, cur_is_flag) ==
    IF api_list # <<>>
      THEN [mods_str |-> Join(api_list), final_mods_enum |-> cur_enum,
            is_flag |-> cur_is_flag]
    ELSE IF KeepOrdrMods(api_list, cur_mods_str)
      THEN [mods_str |-> cur_mods_str, final_mods_enum |-> cur_enum,
            is_flag |-> cur_is_flag]
    ELSE [mods_str |-> NM, final_mods_enum |-> NoMod, is_flag |-> TRUE]

(* The three branches; is_flag tells whether final_mods_enum is a Mods      *)
(* instance (Mods.NoMod) or a plain int (JSON value, or int(final_enum)).   *)
ModsOverride(api_list, cur_mods_str, cur_enum, cur_is_flag) ==
    IF api_list # <<>>
      THEN [mods_str |-> Join(api_list),
            final_mods_enum |-> get_mods_enum_from_list(api_list),
            is_flag |-> FALSE]
    ELSE IF KeepOrdrMods(api_list, cur_mods_str)
      THEN [mods_str |-> cur_mods_str, final_mods_enum |-> cur_enum,
            is_flag |-> cur_is_flag]
    ELSE [mods_str |-> NM, final_mods_enum |-> NoMod, is_flag |-> TRUE]

(* ---------------- theoretical PP and the true-FC heuristic -------------- *)
(* get_theoretical_pp: None unless the library is importable, the .osu      *)
(* content is there, the hit counts are given and the calculation does not  *)
(* raise; calc_pp is what rosu-pp-py computes.                              *)
get_theoretical_pp_unguarded(rosu_available, have_content, counts_given, calc_ok, calc_pp) ==
    IF ~counts_given THEN None ELSE calc_pp

get_theoretical_pp(rosu_available, have_content, counts_given, calc_ok, calc_pp) ==
    IF ~rosu_available THEN None
    ELSE IF ~have_content THEN None
    ELSE IF ~calc_ok THEN None
    ELSE IF ~counts_given THEN None
    ELSE calc_pp

(* 1 / pp_relative_tolerance *)
PPToleranceInverse == 20

(* is_match of lines 1264-1271, relative to the theoretical PP *)
PPMatchAchievedBase(pp, theoretical) ==
    PPToleranceInverse * Abs(pp - theoretical) <= pp

PPMatch(pp, theoretical) ==
    IF theoretical > 0
      THEN PPToleranceInverse * Abs(pp - theoretical) <= theoretical
      ELSE Abs(pp - theoretical) = 0

(* `beatmap_max_combo is not None and score_max_combo >= beatmap_max_combo` *)
ComboCheckStrict(score_combo, map_combo) == map_combo # None /\ score_combo > map_combo

ComboCheck(score_combo, map_combo) == map_combo # None /\ score_combo >= map_combo

(* Comparing None with an int raises TypeError: at line 1241 for the score  *)
(* combo, at line 1285 for the miss count.                                  *)
FCRaises(miss, score_combo, map_combo) ==
    \/ miss = 0 /\ map_combo # None /\ score_combo = None
    \/ miss = None

(* is_true_fc from lines 1238-1291 (when nothing raises) *)
TheoreticalGate(theoretical) == theoretical # None

DetermineFC(miss, score_combo, map_combo, pp, theoretical) ==
    IF miss = 0
      THEN IF ComboCheck(score_combo, map_combo) THEN TRUE
           ELSE IF TheoreticalGate(theoretical) THEN PPMatch(pp, theoretical)
           ELSE FALSE
    ELSE FALSE

(* ---------------- float arithmetic of the scale step ---------------- *)
(* bg_width / bg_height, target / bg and bg * scale are Python floats:      *)
(* IEEE-754 doubles with 53 significant bits, rounded to nearest, ties to   *)
(* even.  A float is [bits, e]: the integer written by `bits` (most         *)
(* significant first) times 2^e.                                            *)
MantissaBits == 53

(* The arithmetic below works on groups of LimbBits bits.                   *)
LimbBits == 3 * 3
LimbBase == 2 ^ LimbBits

(* Number of bits of a non-negative int *)
BitLength(n) == CHOOSE L \in 0..30 : n < 2 ^ L /\ (L = 0 \/ 2 ^ (L - 1) <= n)

IntBits(n) == [i \in 1..BitLength(n) |-> (n \div (2 ^ (BitLength(n) - i))) % 2]

LimbToBits(v) == [i \in 1..LimbBits |-> (v \div (2 ^ (LimbBits - i))) % 2]

LimbsToBits(limbs) ==
    [j \in 1..(LimbBits * Len(limbs)) |-> LimbToBits(limbs[((j - 1) \div LimbBits) + 1])[((j - 1) % LimbBits) + 1]]

RECURSIVE BitsToInt(_)
BitsToInt(bits) ==
    IF bits = <<>> THEN 0
    ELSE 2 * BitsToInt(SubSeq(bits, 1, Len(bits) - 1)) + bits[Len(bits)]

(* bits without their leading zeros *)
Significant(bits) ==
    IF \A i \in 1..Len(bits) : bits[i] = 0 THEN <<>>
    ELSE SubSeq(bits, CHOOSE i \in 1..Len(bits) :
                        bits[i] = 1 /\ \A j \in 1..(i - 1) : bits[j] = 0,
                Len(bits))

(* bits in groups of LimbBits, zeros added in front *)
BitsToLimbs(bits) ==
    LET pad == (LimbBits - (Len(bits) % LimbBits)) % LimbBits
        padded == [i \in 1..(pad + Len(bits)) |-> IF i <= pad THEN 0 ELSE bits[i - pad]]
    IN  [k \in 1..(Len(padded) \div LimbBits) |->
            BitsToInt(SubSeq(padded, (k - 1) * LimbBits + 1, k * LimbBits))]

(* bits + 1; one bit longer when every bit is 1 *)
IncBits(bits) ==
    LET zeros == {i \in 1..Len(bits) : bits[i] = 0}
    IN  IF zeros = {} THEN [i \in 1..(Len(bits) + 1) |-> IF i = 1 THEN 1 ELSE 0]
        ELSE LET k == CHOOSE i \in zeros : \A j \in zeros : j <= i
             IN  [i \in 1..Len(bits) |-> IF i < k THEN bits[i] ELSE IF i = k THEN 1 ELSE 0]

(* Rounding of an exact value bits * 2^e (plus a non-zero tail when `more`) *)
(* to MantissaBits bits, to nearest, ties to even.                          *)
RoundBits(bits, e, more) ==
    IF Len(bits) <= MantissaBits THEN [bits |-> bits, e |-> e]
    ELSE LET keep == SubSeq(bits, 1, MantissaBits)
             rest == SubSeq(bits, MantissaBits + 1, Len(bits))
             sticky == more \/ \E i \in 2..Len(rest) : rest[i] = 1
             up == rest[1] = 1 /\ (sticky \/ keep[MantissaBits] = 1)
             raised == IF up THEN IncBits(keep) ELSE keep
         IN  IF Len(raised) > MantissaBits
               THEN [bits |-> SubSeq(raised, 1, MantissaBits), e |-> e + Len(rest) + 1]
               ELSE [bits |-> raised, e |-> e + Len(rest)]

(* Long division of r / b below the binary point: k groups of quotient bits *)
(* and the remainder left.                                                  *)
RECURSIVE FracLimbs(_, _, _)
FracLimbs(r, b, k) ==
    IF k = 0 THEN [limbs |-> <<>>, rem |-> r]
    ELSE LET rest == FracLimbs((r * LimbBase) % b, b, k - 1)
         IN  [limbs |-> <<(r * LimbBase) \div b>> \o rest.limbs, rem |-> rest.rem]

(* a / b for positive ints a, b: enough quotient bits for MantissaBits + 1  *)
(* significant ones, then one rounding.                                     *)
FloatDiv(a, b) ==
    LET k == ((MantissaBits + 1 + BitLength(b)) \div LimbBits) + 1
        frac == FracLimbs(a % b, b, k)
        bits == Significant(IntBits(a \div b) \o LimbsToBits(frac.limbs))
    IN  RoundBits(bits, -(LimbBits * k), frac.rem # 0)

(* The exact product of limbs[1..i] and n, plus carry, as bits *)
RECURSIVE MulLimbs(_, _, _, _)
MulLimbs(limbs, i, n, carry) ==
    IF i = 0 THEN IntBits(carry)
    ELSE MulLimbs(limbs, i - 1, n, (limbs[i] * n + carry) \div LimbBase)
         \o LimbToBits((limbs[i] * n + carry) % LimbBase)

(* n * f for a positive int n and a float f: exact product, one rounding *)
FloatMulInt(n, f) ==
    LET limbs == BitsToLimbs(f.bits)
    IN  RoundBits(Significant(MulLimbs(limbs, Len(limbs), n, 0)), f.e, FALSE)

(* int(f): truncation of a positive float *)
FloatToInt(f) ==
    IF f.e >= 0 THEN BitsToInt(f.bits) * (2 ^ f.e)
    ELSE IF Len(f.bits) + f.e <= 0 THEN 0
    ELSE BitsToInt(SubSeq(f.bits, 1, Len(f.bits) + f.e))

(* f > g for two floats of MantissaBits bits *)
FloatGreater(f, g) ==
    \/ f.e > g.e
    \/ /\ f.e = g.e
       /\ \E i \in 1..Len(f.bits) :
            /\ f.bits[i] > g.bits[i]
            /\ \A j \in 1..(i - 1) : f.bits[j] = g.bits[j]

(* ---------------- canvas geometry ---------------- *)
target_width == 1920
target_height == 1080

(* Lines 910-936: the resized size, the crop offsets and the size of the    *)
(* cropped image (right - left, lower - upper of the crop box).             *)
ScaleCrop(bg_width, bg_height) ==
    LET bg_aspect == FloatDiv(bg_width, bg_height)
        target_aspect == FloatDiv(target_width, target_height)
    IN  IF FloatGreater(bg_aspect, target_aspect)
          THEN LET scale == FloatDiv(target_height, bg_height)
                   new_width == FloatToInt(FloatMulInt(bg_width, scale))
                   x_crop == (new_width - target_width) \div 2
               IN  [new_width |-> new_width, new_height |-> target_height,
                    x_crop |-> x_crop, y_crop |-> 0,
                    width |-> (x_crop + target_width) - x_crop,
                    height |-> (0 + target_height) - 0]
          ELSE LET scale == FloatDiv(target_width, bg_width)
                   new_height == FloatToInt(FloatMulInt(bg_height, scale))
                   y_crop == (new_height - target_height) \div 2
               IN  [new_width |-> target_width, new_height |-> new_height,
                    x_crop |-> 0, y_crop |-> y_crop,
                    width |-> (0 + target_width) - 0,
                    height |-> (y_crop + target_height) - y_crop]

(* Lines 995-998 and 1359 *)
avatar_size == 450
side_spacing == 30
avatar_pos_x_corner == target_width \div 2

avatar_pos_x == (target_width - avatar_size) \div 2
avatar_pos_y == (target_height - avatar_size) \div 2

(* Lines 1469, 1513 and 1524, and the x_pos of the right-aligned texts      *)
(* (draw_right_aligned_text_with_effect: right_x - text_width).             *)
SideLayout(acc_width, mods_width) ==
    LET left_x_end == avatar_pos_x - side_spacing
    IN  [left_x_end |-> left_x_end,
         acc_x |-> left_x_end - acc_width,
         mods_x |-> left_x_end - mods_width,
         pp_x |-> avatar_pos_x + avatar_size + side_spacing,
         stars_x |-> avatar_pos_x + avatar_size + side_spacing]

(* ---------------- defaults and guards of create_thumbnail -------------- *)
(* The handler of lines 1331-1337: PP, rank and true FC after an exception  *)
(* in the lookup block, given the values they had when it was raised.       *)
OnLookupErrorKeep(pp_now, rank_now, fc_now) ==
    [fetched_pp |-> pp_now, rank |-> rank_now, is_true_fc |-> fc_now]

OnLookupError(pp_now, rank_now, fc_now) ==
    [fetched_pp |-> 0, rank |-> <<"D">>, is_true_fc |-> FALSE]

(* Lines 791-814: the exception raised before any API or mirror request,    *)
(* "none" if the URL is recognised and the metadata has a mapID.            *)
MetadataFailureNoMapCheck(url, ordr_ok, mapID) ==
    IF url = "empty" THEN "ValueError"
    ELSE IF url = "invalid" THEN "ValueError"
    ELSE IF ~ordr_ok THEN "RuntimeError"
    ELSE "none"

MetadataFailure(url, ordr_ok, mapID) ==
    IF url = "empty" THEN "ValueError"
    ELSE IF url = "invalid" THEN "ValueError"
    ELSE IF ~ordr_ok THEN "RuntimeError"
    ELSE IF ~mapID THEN "ValueError"
    ELSE "none"

(* Line 850: `if client_id and client_secret` *)
UseApiAlways(creds) == TRUE

UseApi(creds) == creds

(* Lines 886-890: the cover is asked for only without a mirror image, with  *)
(* beatmap-set data and with a cover URL in it.                             *)
AskCoverAnyway(have_image, have_set, have_url) == have_set /\ have_url

AskCover(have_image, have_set, have_url) == ~have_image /\ have_set /\ have_url

(* ---------------- state ---------------- *)
VARIABLES
    env,                 \* answers of the external services, fixed per run
    pc,                  \* position in create_thumbnail
    outcome,             \* "running", "returned" or the exception raised
    net,                 \* network requests issued so far, in order
    file_written,        \* thumbnail.save() completed
    mods_str, final_mods_enum, final_mods_is_flag, stars,
    token, beatmapset_data, user_data, user_id, bg_image, osu_file_content,
    found_map, beatmap_id, beatmap_max_combo,
    score_found, fetched_pp, rank, miss_count, score_max_combo,
    api_mods_list, theoretical_pp, is_true_fc,
    lookup_error,        \* "none", or where the lookup block raised
    canvas,              \* result of the scale-then-crop step
    avatar_pos,          \* where the avatar was pasted
    layout,              \* x positions of the side text blocks
    finished,            \* signals Worker.run has emitted, in order
    escaped,             \* "none", or the exception that left Worker.run
    ordr_widget_hidden,  \* the credential view is shown
    action_button_enabled,
    action_button_text,
    thread,              \* self.thread: None or the QThread it refers to
    worker,              \* self.worker: None or the Worker it refers to
    qthreads,            \* every QThread created so far: state and quit request
    events,              \* queued slot calls posted to the GUI thread, in order
    dialog,              \* the modal message box that is open, or "none"
    verified             \* verify_credentials has returned True

modsVars == <<mods_str, final_mods_enum, final_mods_is_flag>>
apiVars == <<token, beatmapset_data, user_data>>
imageVars == <<bg_image, osu_file_content>>
mapVars == <<found_map, beatmap_id, beatmap_max_combo>>
scoreVars == <<score_found, miss_count, score_max_combo, api_mods_list, theoretical_pp,
               lookup_error>>
geomVars == <<canvas, avatar_pos, layout>>
resultVars == <<fetched_pp, rank, is_true_fc>>
thumbVars == <<env, pc, outcome, net, file_written, modsVars, stars, apiVars, user_id,
               imageVars, mapVars, scoreVars, geomVars, resultVars>>
signalVars == <<finished, escaped>>
guiVars == <<ordr_widget_hidden, action_button_enabled, action_button_text, thread, worker,
             qthreads, events, dialog, verified>>
vars == <<env, pc, outcome, net, file_written, mods_str, final_mods_enum,
          final_mods_is_flag, stars, token, beatmapset_data, user_data, user_id,
          bg_image, osu_file_content, found_map, beatmap_id, beatmap_max_combo,
          score_found, fetched_pp, rank, miss_count, score_max_combo,
          api_mods_list, theoretical_pp, is_true_fc, lookup_error, canvas,
          avatar_pos, layout, finished, escaped, ordr_widget_hidden, action_button_enabled,
          action_button_text, thread, worker, qthreads, events, dialog, verified>>

(* Ranks are strings: rank[0] and rank.endswith('H') are computed. *)
RankD == <<"D">>
RankA == <<"A">>
RankS == <<"S">>
RankSH == <<"S", "H">>

(* ---------------- create_thumbnail, step by step ---------------- *)
(* Lines 791-847: URL validation, render metadata, initial values. *)
ReadMetadata ==
    /\ pc = "start"
    /\ LET failure == MetadataFailure(env.url, env.ordr_ok, env.mapID)
       IN  /\ net' = IF env.url = "ok" THEN Append(net, "ordr") ELSE net
           /\ pc' = IF failure = "none" THEN "api" ELSE "raised"
           /\ outcome' = IF failure = "none" THEN outcome ELSE failure
           /\ mods_str' = IF failure = "none" THEN get_mods_string(env.modsEnum) ELSE mods_str
           /\ final_mods_enum' = IF failure = "none" THEN env.modsEnum ELSE final_mods_enum
           /\ stars' = IF failure = "none" THEN env.desc_stars ELSE stars
    /\ UNCHANGED <<guiVars, signalVars, env, geomVars, file_written, final_mods_is_flag, apiVars, user_id, imageVars,
                   mapVars, scoreVars, resultVars>>

(* Lines 849-872: token, beatmap set and user, inside one try block. *)
FetchApiData ==
    /\ pc = "api"
    /\ pc' = "mirror"
    /\ token' = (UseApi(env.creds) /\ env.token_ok)
    /\ beatmapset_data' = (UseApi(env.creds) /\ env.token_ok /\ env.beatmapset_ok)
    /\ user_data' = (UseApi(env.creds) /\ env.token_ok /\ env.beatmapset_ok /\ env.user_ok)
    /\ net' = net \o (IF UseApi(env.creds) THEN <<"token">> ELSE <<>>)
                  \o (IF UseApi(env.creds) /\ env.token_ok THEN <<"beatmapset">> ELSE <<>>)
                  \o (IF UseApi(env.creds) /\ env.token_ok /\ env.beatmapset_ok
                        THEN <<"user">> ELSE <<>>)
    /\ UNCHANGED <<guiVars, signalVars, env, geomVars, outcome, file_written, modsVars, stars, user_id, imageVars,
                   mapVars, scoreVars, resultVars>>

(* Line 876: download_from_mirror returns (bg_image, osu_file_content). *)
MirrorDownload ==
    /\ pc = "mirror"
    /\ pc' = "background"
    /\ net' = Append(net, "mirror")
    /\ bg_image' = env.mirror_bg
    /\ osu_file_content' = env.mirror_osu
    /\ UNCHANGED <<guiVars, signalVars, env, geomVars, outcome, file_written, modsVars, stars, apiVars, user_id,
                   mapVars, scoreVars, resultVars>>

(* Lines 886-906: cover from the API if the mirror gave no image, else fail. *)
BackgroundFallback ==
    /\ pc = "background"
    /\ LET ask == AskCover(bg_image, beatmapset_data, env.cover_url)
           got == bg_image \/ (ask /\ env.cover_ok)
       IN  /\ net' = IF ask THEN Append(net, "cover") ELSE net
           /\ bg_image' = got
           /\ pc' = IF got THEN "base" ELSE "raised"
           /\ outcome' = IF got THEN outcome ELSE "ValueError"
    /\ UNCHANGED <<guiVars, signalVars, env, geomVars, file_written, modsVars, stars, apiVars, user_id,
                   osu_file_content, mapVars, scoreVars, resultVars>>

(* Lines 908-939: the background scaled to fill 1920x1080, then cropped. *)
CreateBase ==
    /\ pc = "base"
    /\ pc' = "avatar"
    /\ canvas' = ScaleCrop(env.bg_width, env.bg_height)
    /\ UNCHANGED <<guiVars, signalVars, env, avatar_pos, layout, outcome, net, file_written, modsVars, stars,
                   apiVars, user_id, imageVars, mapVars, scoreVars, resultVars>>

(* Lines 991-1053: user id and avatar; every failure is caught. *)
Avatar ==
    /\ pc = "avatar"
    /\ pc' = "lookup"
    /\ LET have_url == user_data /\ env.avatar_url
           second == ~have_url /\ token /\ ~user_data
           url == have_url \/ (second /\ env.user2_ok)
       IN  /\ user_id' = (user_data \/ (second /\ env.user2_ok))
           /\ net' = net \o (IF second THEN <<"user">> ELSE <<>>)
                         \o (IF url THEN <<"avatar">> ELSE <<>>)
           /\ avatar_pos' = IF url THEN <<avatar_pos_x, avatar_pos_y>> ELSE avatar_pos
    /\ UNCHANGED <<guiVars, signalVars, env, canvas, layout, outcome, file_written, modsVars, stars, apiVars, imageVars,
                   mapVars, scoreVars, resultVars>>

(* Lines 1113-1178 and the else branches 1325-1329, 1339-1344. *)
FindBeatmap ==
    /\ pc = "lookup"
    /\ LET go == token /\ user_id /\ beatmapset_data
           r == ResolveDifficulty(env.beatmaps, env.replayDifficulty, env.desc_stars, stars)
       IN  /\ found_map' = (go /\ r.found_map)
           /\ beatmap_id' = IF go THEN r.beatmap_id ELSE beatmap_id
           /\ beatmap_max_combo' = IF go THEN r.beatmap_max_combo ELSE beatmap_max_combo
           /\ stars' = IF go THEN r.stars ELSE stars
           /\ pc' = IF go /\ r.found_map THEN "score" ELSE "draw"
           /\ fetched_pp' = IF go THEN fetched_pp ELSE 0
           /\ rank' = IF go /\ r.found_map THEN rank ELSE RankD
           /\ is_true_fc' = IF go /\ r.found_map THEN is_true_fc ELSE FALSE
    /\ UNCHANGED <<guiVars, signalVars, env, geomVars, outcome, net, file_written, modsVars, apiVars, user_id,
                   imageVars, scoreVars>>

(* Lines 1180-1303 with the handler of lines 1331-1337: the score request,  *)
(* the score fields, the mods override and the true-FC determination.       *)
ScoreLookup ==
    /\ pc = "score"
    /\ net' = Append(net, "score")
    /\ LET have == env.score_ok /\ env.has_score
           m == ModsOverride(env.score_mods, mods_str, final_mods_enum, final_mods_is_flag)
           raises == have /\ FCRaises(env.count_miss, env.score_max_combo, beatmap_max_combo)
           pp == IF env.score_pp = None THEN 0 ELSE env.score_pp
           need_pp == env.count_miss = 0
                      /\ ~ComboCheck(env.score_max_combo, beatmap_max_combo)
           theo == get_theoretical_pp(env.rosu_available, osu_file_content,
                                      env.counts_given, env.calc_ok, env.calc_pp)
           caught == ~env.score_ok \/ raises
           fetched_rank == IF env.score_rank # <<>> THEN env.score_rank ELSE RankD
           reset == OnLookupError(pp, fetched_rank, FALSE)
       IN  /\ score_found' = have
           /\ lookup_error' = IF ~env.score_ok THEN "request"
                              ELSE IF raises THEN "fc" ELSE "none"
           /\ mods_str' = IF have THEN m.mods_str ELSE mods_str
           /\ final_mods_enum' = IF have THEN m.final_mods_enum ELSE final_mods_enum
           /\ final_mods_is_flag' = IF have THEN m.is_flag ELSE final_mods_is_flag
           /\ api_mods_list' = IF have THEN env.score_mods ELSE api_mods_list
           /\ miss_count' = IF have THEN env.count_miss ELSE miss_count
           /\ score_max_combo' = IF have THEN env.score_max_combo ELSE score_max_combo
           /\ theoretical_pp' = IF have /\ ~raises /\ need_pp THEN theo ELSE theoretical_pp
           /\ fetched_pp' = IF have /\ ~raises THEN pp
                            ELSE IF raises THEN reset.fetched_pp ELSE 0
           /\ rank' = IF have /\ ~raises THEN fetched_rank
                      ELSE IF raises THEN reset.rank ELSE RankD
           /\ is_true_fc' = IF have /\ ~raises
                              THEN DetermineFC(env.count_miss, env.score_max_combo,
                                               beatmap_max_combo, pp, theo)
                              ELSE IF raises THEN reset.is_true_fc ELSE FALSE
           /\ pc' = IF caught THEN "draw" ELSE "attributes"
    /\ UNCHANGED <<guiVars, signalVars, env, geomVars, outcome, file_written, stars, apiVars, user_id, imageVars, mapVars>>

(* Lines 1305-1323: modded star rating, in its own try block. *)
FetchAttributes ==
    /\ pc = "attributes"
    /\ pc' = "draw"
    /\ net' = Append(net, "attributes")
    /\ stars' = IF env.attr_ok /\ env.attr_stars # None THEN env.attr_stars ELSE stars
    /\ UNCHANGED <<guiVars, signalVars, env, geomVars, outcome, file_written, modsVars, apiVars, user_id, imageVars,
                   mapVars, scoreVars, resultVars>>

(* Lines 1446-1449: `Mods.Hidden in final_mods_enum` is evaluated only for  *)
(* a rank S or X without the H suffix, and raises TypeError on a plain int. *)
DrawRaisesAnyRank == ~final_mods_is_flag

DrawRaises ==
    /\ rank[Len(rank)] # "H"
    /\ rank[1] \in {"S", "X"}
    /\ ~final_mods_is_flag

(* Lines 1350-1560: text drawing; the rank colour is chosen (line 1449)     *)
(* before the side blocks are placed.                                       *)
Draw ==
    /\ pc = "draw"
    /\ pc' = IF DrawRaises THEN "raised" ELSE "save"
    /\ outcome' = IF DrawRaises THEN "TypeError" ELSE outcome
    /\ layout' = IF DrawRaises THEN layout ELSE SideLayout(env.acc_width, env.mods_width)
    /\ UNCHANGED <<guiVars, signalVars, env, canvas, avatar_pos, net, file_written, modsVars, stars, apiVars, user_id, imageVars,
                   mapVars, scoreVars, resultVars>>

(* Lines 1562-1587: output directory and thumbnail.save(). *)
Save ==
    /\ pc = "save"
    /\ pc' = IF env.makedirs_ok /\ env.save_ok THEN "done" ELSE "raised"
    /\ outcome' = IF ~env.makedirs_ok THEN "RuntimeError"
                  ELSE IF ~env.save_ok THEN "OSError" ELSE "returned"
    /\ file_written' = (env.makedirs_ok /\ env.save_ok)
    /\ UNCHANGED <<guiVars, signalVars, env, geomVars, net, modsVars, stars, apiVars, user_id, imageVars,
                   mapVars, scoreVars, resultVars>>

(* ---------------- Worker.run ---------------- *)
(* Every exception create_thumbnail raises is an Exception: the ValueError  *)
(* and RuntimeError of its raise statements, the TypeError of line 1449 and *)
(* the OSError of thumbnail.save().                                         *)
Outcomes == {"returned", "ValueError", "RuntimeError", "TypeError", "OSError"}

(* Lines 74-90: the clause of the try statement that handles the result of  *)
(* the call at line 76.                                                     *)
HandlerUserErrorsOnly(result) ==
    IF result = "returned" THEN "try"
    ELSE IF result \in {"ValueError", "RuntimeError"} THEN "user_error"
    ELSE "escapes"

Handler(result) ==
    IF result = "returned" THEN "try"
    ELSE IF result \in {"ValueError", "RuntimeError"} THEN "user_error"
    ELSE IF result \in Outcomes THEN "unexpected"
    ELSE "escapes"

(* Lines 79, 84 and 89: each clause emits finished once; success is True in *)
(* the try body only. The message is kept as the clause that built it.      *)
WorkerSignals(result) ==
    IF Handler(result) = "escapes" THEN <<>>
    ELSE <<[success |-> Handler(result) = "try", message |-> Handler(result)]>>

(* Lines 70-92: what Worker.run does once the call at line 76 has returned  *)
(* or raised.                                                               *)
WorkerRun ==
    /\ pc \in {"done", "raised"}
    /\ finished = <<>>
    /\ escaped = "none"
    /\ finished' = WorkerSignals(outcome)
    /\ escaped' = IF Handler(outcome) = "escapes" THEN outcome ELSE "none"
    /\ UNCHANGED <<guiVars, thumbVars>>

(* ---------------- the GUI ---------------- *)
(* The QThreads handle_action_button may create, none created yet. A thread *)
(* is "new" (not created), "started" (start() issued), "running" (Worker.run *)
(* is inside create_thumbnail), "emitted" (run is over, the thread's event  *)
(* loop is up) or "finished"; quit records a quit() request.                *)
NoThreads == [k \in 1..MaxThreads |-> [state |-> "new", quit |-> FALSE]]

(* Texts of the line edits after strip(), and the answers of the token      *)
(* request: a token, none in the reply, or an exception.                    *)
Texts == {"", "text"}
Tokens == {"token", "none", "raise"}

(* Lines 1590-1606. *)
verify_credentials(client_id, client_secret, token_reply) ==
    IF client_id = "" \/ client_secret = "" THEN FALSE
    ELSE token_reply = "token"

(* Lines 1745-1749: the start-up switch to the generate view. *)
AutoVerifyStored(client_id, client_secret, token_reply) ==
    client_id # "" /\ client_secret # ""

AutoVerify(client_id, client_secret, token_reply) ==
    /\ client_id # ""
    /\ client_secret # ""
    /\ verify_credentials(client_id, client_secret, token_reply)

(* QThread.isRunning(): started and not yet finished. *)
isRunning(k) == qthreads[k].state \in {"started", "running", "emitted"}

(* The thread the next QThread() of line 1834 creates. *)
NextThread == Cardinality({k \in 1..MaxThreads : qthreads[k].state # "new"}) + 1

(* A slot call queued to the GUI thread by a signal of thread k or of its   *)
(* worker.                                                                  *)
Event(slot, k, success) == [slot |-> slot, of |-> k, success |-> success]

(* Line 1820: the button while a generation is being started. *)
GenerateKeepsButton == TRUE

GenerateDisablesButton == FALSE

(* The event loop of the GUI thread, and the nested one of an open message  *)
(* box, send the queued slot calls before they handle user input; a modal   *)
(* box takes the input of the window under it.                              *)
AcceptsInput == events = <<>>
AcceptsClick == AcceptsInput /\ dialog = <<>> /\ action_button_enabled

(* Lines 1776-1807: a click in the credential view.  The handler stays in   *)
(* its message box, if it opens one, until CloseDialog.                     *)
ClickVerify ==
    /\ ordr_widget_hidden
    /\ AcceptsClick
    /\ \E client_id \in Texts, client_secret \in Texts, token_reply \in Tokens,
          saved \in BOOLEAN :
          LET filled == client_id # "" /\ client_secret # ""
              valid == verify_credentials(client_id, client_secret, token_reply)
          IN  /\ dialog' = IF ~filled THEN <<"input_required">>
                           ELSE IF ~valid THEN <<"verification_failed">>
                           ELSE IF ~saved THEN <<"save_warning">>
                           ELSE <<>>
              /\ action_button_enabled' = (filled => (valid /\ saved))
              /\ action_button_text' = IF ~filled THEN action_button_text
                                       ELSE IF valid /\ saved THEN "Generate Thumbnail"
                                       ELSE "Verifying..."
              /\ ordr_widget_hidden' = ~(filled /\ valid /\ saved)
              /\ verified' = (verified \/ (filled /\ valid))
    /\ UNCHANGED <<thread, worker, qthreads, events, thumbVars, signalVars>>

(* Lines 1810-1850: a click in the generate view.  A previous thread that   *)
(* is still running is asked to quit and waited for up to a second; it      *)
(* finishes in that second or not, and only once its event loop is up.      *)
ClickGenerate ==
    /\ ~ordr_widget_hidden
    /\ AcceptsClick
    /\ \E ordr_url \in Texts, waited \in BOOLEAN :
          /\ (ordr_url # "") => (NextThread <= MaxThreads)
          /\ LET start == ordr_url # ""
                 wait_for == thread # None /\ isRunning(thread)
                 stopped == wait_for /\ waited /\ qthreads[thread].state = "emitted"
                 after_wait ==
                     IF wait_for
                     THEN [qthreads EXCEPT ![thread] =
                              [state |-> IF stopped THEN "finished" ELSE @.state,
                               quit |-> TRUE]]
                     ELSE qthreads
             IN  /\ dialog' = IF start THEN dialog ELSE <<"input_required">>
                 /\ action_button_enabled' =
                        IF start THEN GenerateDisablesButton ELSE action_button_enabled
                 /\ action_button_text' =
                        IF start THEN "Generating..." ELSE action_button_text
                 /\ qthreads' =
                        IF start
                        THEN [after_wait EXCEPT ![NextThread] =
                                 [state |-> "started", quit |-> FALSE]]
                        ELSE qthreads
                 /\ events' =
                        IF start /\ stopped
                        THEN <<Event("_clear_thread_ref", thread, FALSE)>>
                        ELSE events
                 /\ thread' = IF start THEN NextThread ELSE thread
                 /\ worker' = IF start THEN NextThread ELSE worker
    /\ UNCHANGED <<ordr_widget_hidden, verified, thumbVars, signalVars>>

(* The user closes the message box on top; the handler that opened it goes  *)
(* on: lines 1785 and 1817 return, lines 1804-1807 reset the button, lines  *)
(* 1800-1807 switch the view, line 1886 only logs.                          *)
CloseDialog ==
    /\ dialog # <<>>
    /\ AcceptsInput
    /\ dialog' = Tail(dialog)
    /\ action_button_enabled' =
           IF Head(dialog) \in {"verification_failed", "save_warning"} THEN TRUE
           ELSE action_button_enabled
    /\ action_button_text' =
           IF Head(dialog) = "verification_failed" THEN "Verify Credentials"
           ELSE IF Head(dialog) = "save_warning" THEN "Generate Thumbnail"
           ELSE action_button_text
    /\ ordr_widget_hidden' =
           IF Head(dialog) = "save_warning" THEN FALSE ELSE ordr_widget_hidden
    /\ UNCHANGED <<thread, worker, qthreads, events, verified, thumbVars, signalVars>>

(* Line 1840: the new thread emits started and calls Worker.run, which      *)
(* enters create_thumbnail.                                                 *)
ThreadStarted ==
    /\ \E k \in 1..MaxThreads :
          /\ qthreads[k].state = "started"
          /\ qthreads' = [qthreads EXCEPT ![k].state = "running"]
    /\ UNCHANGED <<ordr_widget_hidden, action_button_enabled, action_button_text, thread,
                   worker, events, dialog, verified, thumbVars, signalVars>>

(* Lines 1839 and 1842: create_thumbnail ends with any of its outcomes and  *)
(* Worker.run emits finished; the signal queues on_generation_complete and  *)
(* the thread's quit to the GUI thread, in the order they were connected.   *)
WorkerFinished ==
    /\ \E k \in 1..MaxThreads, result \in Outcomes :
          /\ qthreads[k].state = "running"
          /\ qthreads' = [qthreads EXCEPT ![k].state = "emitted"]
          /\ events' =
                 IF WorkerSignals(result) = <<>> THEN events
                 ELSE events \o
                      <<Event("on_generation_complete", k, WorkerSignals(result)[1].success),
                        Event("quit", k, FALSE)>>
    /\ UNCHANGED <<ordr_widget_hidden, action_button_enabled, action_button_text, thread,
                   worker, dialog, verified, thumbVars, signalVars>>

(* Line 1846: a thread whose event loop was told to quit leaves it and      *)
(* emits finished, which queues _clear_thread_ref to the GUI thread.        *)
ThreadFinished ==
    /\ \E k \in 1..MaxThreads :
          /\ qthreads[k].state = "emitted"
          /\ qthreads[k].quit
          /\ qthreads' = [qthreads EXCEPT ![k].state = "finished"]
          /\ events' = Append(events, Event("_clear_thread_ref", k, FALSE))
    /\ UNCHANGED <<ordr_widget_hidden, action_button_enabled, action_button_text, thread,
                   worker, dialog, verified, thumbVars, signalVars>>

(* Lines 1873-1886, up to the message box it opens. *)
on_generation_complete ==
    /\ events # <<>>
    /\ Head(events).slot = "on_generation_complete"
    /\ events' = Tail(events)
    /\ action_button_enabled' = TRUE
    /\ action_button_text' = "Generate Thumbnail"
    /\ dialog' = <<"result">> \o dialog
    /\ UNCHANGED <<ordr_widget_hidden, thread, worker, qthreads, verified, thumbVars,
                   signalVars>>

(* Line 1842: the queued QThread.quit() of the thread whose worker emitted. *)
ThreadQuit ==
    /\ events # <<>>
    /\ Head(events).slot = "quit"
    /\ events' = Tail(events)
    /\ qthreads' = [qthreads EXCEPT ![Head(events).of].quit = TRUE]
    /\ UNCHANGED <<ordr_widget_hidden, action_button_enabled, action_button_text, thread,
                   worker, dialog, verified, thumbVars, signalVars>>

(* Lines 1867-1871. *)
_clear_thread_ref ==
    /\ events # <<>>
    /\ Head(events).slot = "_clear_thread_ref"
    /\ events' = Tail(events)
    /\ thread' = None
    /\ worker' = None
    /\ UNCHANGED <<ordr_widget_hidden, action_button_enabled, action_button_text, qthreads,
                   dialog, verified, thumbVars, signalVars>>

(* ---------------- the runs explored ---------------- *)
(* Difficulty names *)
NameTarget == <<" ", "h", "a", "r", "d">>
NameHard == <<"H", "A", "R", "D", " ">>
NameInsane == <<"I", "n", "s", "a", "n", "e">>
Versions == {NameHard, NameInsane}

(* Star ratings of a beatmap (0: no rating) around a description rating of 5.00 *)
DescStars == 5 * 100
Ratings == {0, 495, 505, 515}

(* max_combo of the i-th beatmap of a set: unknown, or 100 * i *)
BeatmapAt(i) ==
    [id : {i}, version : Versions, max_combo : {None, 100 * i}, difficulty_rating : Ratings]

RECURSIVE BeatmapLists(_)
BeatmapLists(n) ==
    IF n = 0 THEN {<<>>}
    ELSE BeatmapLists(n - 1)
         \cup {Append(l, b) : l \in {x \in BeatmapLists(n - 1) : Len(x) = n - 1},
                              b \in BeatmapAt(n)}

(* Mod codes an API score may list; CL is not in MOD_STRING_TO_ENUM *)
ApiCodes == {Code("H", "D"), Code("D", "T"), Code("N", "C"),
             Code("S", "D"), Code("P", "F"), Code("C", "L")}

RECURSIVE ModLists(_)
ModLists(n) ==
    IF n = 0 THEN {<<>>}
    ELSE ModLists(n - 1)
         \cup {Append(l, c) : l \in {x \in ModLists(n - 1) : Len(x) = n - 1},
                              c \in ApiCodes}

(* modsEnum values: every combination of these flags *)
EnumFlags == <<NoFail, TouchDevice, Hidden, SuddenDeath, DoubleTime, Nightcore,
               Autoplay, Perfect>>

RECURSIVE SumFlags(_, _)
SumFlags(S, i) ==
    IF i > Len(EnumFlags) THEN 0
    ELSE (IF i \in S THEN EnumFlags[i] ELSE 0) + SumFlags(S, i + 1)

AllEnums == {SumFlags(S, 1) : S \in SUBSET (1..Len(EnumFlags))}

SomeEnums == {NoMod, Hidden, DoubleTime, Hidden + DoubleTime, Nightcore + DoubleTime,
              Autoplay, Perfect + SuddenDeath, Hidden + Autoplay}

(* A run in which everything succeeds. *)
Plain ==
    [url |-> "ok", ordr_ok |-> TRUE, mapID |-> TRUE, modsEnum |-> Hidden,
     replayDifficulty |-> NameTarget, desc_stars |-> DescStars,
     creds |-> TRUE, token_ok |-> TRUE, beatmapset_ok |-> TRUE, user_ok |-> TRUE,
     avatar_url |-> TRUE, user2_ok |-> TRUE,
     beatmaps |-> <<[id |-> 1, version |-> NameHard, max_combo |-> 100,
                     difficulty_rating |-> 505]>>,
     cover_url |-> TRUE, cover_ok |-> TRUE, mirror_bg |-> TRUE, mirror_osu |-> TRUE,
     score_ok |-> TRUE, has_score |-> TRUE, score_pp |-> 39, score_rank |-> RankA,
     count_miss |-> 0, counts_given |-> TRUE, score_max_combo |-> 100,
     score_mods |-> <<Code("H", "D")>>,
     attr_ok |-> TRUE, attr_stars |-> 620,
     rosu_available |-> TRUE, calc_ok |-> TRUE, calc_pp |-> 41,
     makedirs_ok |-> TRUE, save_ok |-> TRUE,
     bg_width |-> 1920, bg_height |-> 1080, acc_width |-> 300, mods_width |-> 200]

(* Every modsEnum through get_mods_string. *)
RunsEnums == {[Plain EXCEPT !.modsEnum = e] : e \in AllEnums}

(* Render-service mods against API score mods. *)
RunsMods ==
    {[Plain EXCEPT !.modsEnum = e, !.score_mods = l, !.score_rank = r, !.count_miss = c] :
        e \in SomeEnums, l \in ModLists(MaxModsLen), r \in {RankA, RankS}, c \in {0, None}}

(* Beatmap sets against the description's difficulty name and stars. *)
RunsMaps ==
    {[Plain EXCEPT !.beatmaps = l, !.desc_stars = d] :
        l \in BeatmapLists(MaxMaps), d \in {0, DescStars}}

(* Scores against map combo, PP library and .osu content. *)
RunsScores ==
    {[Plain EXCEPT !.count_miss = c, !.score_max_combo = sc, !.beatmaps[1].max_combo = mc,
                   !.score_pp = pp, !.calc_pp = tp, !.calc_ok = ok, !.rosu_available = lib,
                   !.mirror_osu = osu, !.counts_given = cg] :
        c \in {-1, 0, 2, None}, sc \in {50, 100, None}, mc \in {100, None},
        pp \in {None, 0, 38, 39, 41}, tp \in {0, 39, 40, 41}, ok \in BOOLEAN,
        lib \in BOOLEAN, osu \in BOOLEAN, cg \in BOOLEAN}

(* Failures of the services. *)
RunsFailures ==
    {[Plain EXCEPT !.creds = a, !.token_ok = b, !.beatmapset_ok = c, !.user_ok = d,
                   !.user2_ok = e, !.mirror_bg = f, !.cover_ok = g, !.score_ok = h,
                   !.has_score = i, !.attr_ok = j, !.save_ok = k] :
        a \in BOOLEAN, b \in BOOLEAN, c \in BOOLEAN, d \in BOOLEAN, e \in BOOLEAN,
        f \in BOOLEAN, g \in BOOLEAN, h \in BOOLEAN, i \in BOOLEAN, j \in BOOLEAN,
        k \in BOOLEAN}
    \cup {[Plain EXCEPT !.url = u] : u \in {"empty", "invalid"}}
    \cup {[Plain EXCEPT !.ordr_ok = FALSE], [Plain EXCEPT !.mapID = FALSE],
          [Plain EXCEPT !.makedirs_ok = FALSE], [Plain EXCEPT !.attr_stars = None],
          [Plain EXCEPT !.cover_url = FALSE, !.mirror_bg = FALSE],
          [Plain EXCEPT !.avatar_url = FALSE], [Plain EXCEPT !.score_rank = <<>>]}

(* Background sizes: every small size, common sizes around 16:9, extreme    *)
(* aspect ratios and large 16:9 images; widths of the two left texts.       *)
ImageSizes ==
    ((1..MaxSide) \X (1..MaxSide))
    \cup {<<1920, 1080>>, <<1280, 720>>, <<1366, 768>>, <<800, 600>>, <<2560, 1080>>,
          <<1921, 1080>>, <<1919, 1080>>, <<1000, 562>>, <<1000, 563>>,
          <<4000, 1>>, <<1, 3000>>, <<9999, 5625>>, <<15088, 8487>>, <<15248, 8577>>}

TextWidths == {0, 200, 800}

RunsImages ==
    {[Plain EXCEPT !.bg_width = sz[1], !.bg_height = sz[2], !.mirror_bg = m,
                   !.acc_width = aw, !.mods_width = mw, !.user_ok = u] :
        sz \in ImageSizes, m \in BOOLEAN, aw \in TextWidths, mw \in TextWidths,
        u \in BOOLEAN}

(* Star ratings from the three sources. *)
RunsStars ==
    {[Plain EXCEPT !.beatmaps[1].version = v, !.beatmaps[1].difficulty_rating = r,
                   !.desc_stars = d, !.attr_ok = ok, !.attr_stars = a, !.score_ok = so,
                   !.has_score = hs, !.creds = c] :
        v \in Versions, r \in Ratings, d \in {0, DescStars}, ok \in BOOLEAN,
        a \in {None, 0, 620}, so \in BOOLEAN, hs \in BOOLEAN, c \in BOOLEAN}

Runs == RunsEnums \cup RunsMods \cup RunsMaps \cup RunsScores \cup RunsFailures
        \cup RunsImages \cup RunsStars

(* A call of create_thumbnail before its first statement. *)
ThumbInit ==
    /\ pc = "start"
    /\ outcome = "running"
    /\ net = <<>>
    /\ file_written = FALSE
    /\ mods_str = NM
    /\ final_mods_enum = NoMod
    /\ final_mods_is_flag = FALSE
    /\ stars = 0
    /\ token = FALSE
    /\ beatmapset_data = FALSE
    /\ user_data = FALSE
    /\ user_id = FALSE
    /\ bg_image = FALSE
    /\ osu_file_content = FALSE
    /\ found_map = FALSE
    /\ beatmap_id = None
    /\ beatmap_max_combo = None
    /\ score_found = FALSE
    /\ fetched_pp = 0
    /\ rank = RankD
    /\ miss_count = -1
    /\ score_max_combo = 0
    /\ api_mods_list = <<>>
    /\ theoretical_pp = None
    /\ is_true_fc = FALSE
    /\ lookup_error = "none"
    /\ canvas = [new_width |-> 0, new_height |-> 0, x_crop |-> 0, y_crop |-> 0,
                 width |-> 0, height |-> 0]
    /\ avatar_pos = <<None, None>>
    /\ layout = [left_x_end |-> None, acc_x |-> None, mods_x |-> None,
                 pp_x |-> None, stars_x |-> None]

(* One worker, as handle_action_button starts it (lines 1819-1850), running *)
(* create_thumbnail on any of the runs.                                     *)
Init ==
    /\ env \in Runs
    /\ ThumbInit
    /\ finished = <<>>
    /\ escaped = "none"
    /\ ordr_widget_hidden = FALSE
    /\ action_button_enabled = FALSE
    /\ action_button_text = "Generating..."
    /\ thread = 1
    /\ worker = 1
    /\ qthreads = [NoThreads EXCEPT ![1] = [state |-> "running", quit |-> FALSE]]
    /\ events = <<>>
    /\ dialog = <<>>
    /\ verified = TRUE

Next ==
    \/ ReadMetadata
    \/ FetchApiData
    \/ MirrorDownload
    \/ BackgroundFallback
    \/ CreateBase
    \/ Avatar
    \/ FindBeatmap
    \/ ScoreLookup
    \/ FetchAttributes
    \/ Draw
    \/ Save
    \/ WorkerRun

Spec == Init /\ [][Next]_vars

(* ---------------- the GUI and its threads ---------------- *)
(* Lines 1672-1673 and 1740-1753: the window after __init__, for any stored *)
(* credentials and any answer to the token request.  create_thumbnail is    *)
(* followed by its outcome only (WorkerFinished).                           *)
GuiInit ==
    /\ env = Plain
    /\ ThumbInit
    /\ finished = <<>>
    /\ escaped = "none"
    /\ thread = None
    /\ worker = None
    /\ qthreads = NoThreads
    /\ events = <<>>
    /\ dialog = <<>>
    /\ action_button_enabled = TRUE
    /\ \E client_id \in Texts, client_secret \in Texts, token_reply \in Tokens :
          /\ ordr_widget_hidden = ~AutoVerify(client_id, client_secret, token_reply)
          /\ action_button_text =
                 IF AutoVerify(client_id, client_secret, token_reply)
                 THEN "Generate Thumbnail" ELSE "Verify Credentials"
          /\ verified = (/\ client_id # ""
                         /\ client_secret # ""
                         /\ verify_credentials(client_id, client_secret, token_reply))

GuiNext ==
    \/ ClickVerify
    \/ ClickGenerate
    \/ CloseDialog
    \/ ThreadStarted
    \/ WorkerFinished
    \/ ThreadFinished
    \/ on_generation_complete
    \/ ThreadQuit
    \/ _clear_thread_ref

GuiSpec == GuiInit /\ [][GuiNext]_vars

(* ---------------- properties ---------------- *)
(* The score of the matched beatmap has been read. *)
ScoreRead == score_found

(* The lookup block has been entered with token, user id and set data. *)
LookedUp ==
    /\ pc \notin {"start", "api", "mirror", "background", "base", "avatar", "lookup"}
    /\ token /\ user_id /\ beatmapset_data

(* `t` occurs in `s` as a substring / as one of its two-letter codes. *)
Contains(s, t) == \E i \in 1..(Len(s) - 1) : SubSeq(s, i, i + 1) = t
HasCode(s, t) == \E k \in 0..((Len(s) \div 2) - 1) : SubSeq(s, 2 * k + 1, 2 * k + 2) = t

(* C1: once a score with a non-empty mods list has been read, the mods      *)
(* string is the concatenation of that list and final_mods_enum is          *)
(* get_mods_enum_from_list of it, whatever the render-service modsEnum.     *)
C1_ApiModsOverride ==
    (ScoreRead /\ env.score_mods # <<>>)
        => /\ mods_str = Join(env.score_mods)
           /\ final_mods_enum = get_mods_enum_from_list(env.score_mods)

C1_Witness ==
    /\ pc = "done"
    /\ ScoreRead
    /\ env.score_mods = <<Code("H", "D")>>
    /\ env.modsEnum = Nightcore + DoubleTime
    /\ mods_str = Code("H", "D")
    /\ final_mods_enum = Hidden

(* C2: once a score with an empty mods list has been read and the           *)
(* render-service modsEnum is not 0, the mods string and final_mods_enum    *)
(* are exactly the values derived from the render-service modsEnum.         *)
C2_OrdrModsKept ==
    (ScoreRead /\ env.score_mods = <<>> /\ env.modsEnum # NoMod)
        => /\ mods_str = get_mods_string(env.modsEnum)
           /\ final_mods_enum = env.modsEnum

(* C3: the integer computed from an API mods list has DoubleTime whenever   *)
(* it has Nightcore, and SuddenDeath whenever it has Perfect.               *)
C3_CombinedModsImplied ==
    (ScoreRead /\ env.score_mods # <<>>)
        => /\ HasFlag(final_mods_enum, Nightcore) => HasFlag(final_mods_enum, DoubleTime)
           /\ HasFlag(final_mods_enum, Perfect) => HasFlag(final_mods_enum, SuddenDeath)

C3_Witness ==
    /\ ScoreRead
    /\ env.score_mods = <<Code("P", "F"), Code("N", "C")>>
    /\ final_mods_enum = Nightcore + DoubleTime + Perfect + SuddenDeath

(* C4 as stated: the string returned by get_mods_string for modsEnum        *)
(* contains "NC" and not "DT" under Nightcore, "PF" and not "SD" under      *)
(* Perfect, and "DT" (resp. "SD") exactly when DoubleTime is set without    *)
(* Nightcore (resp. SuddenDeath without Perfect), "contains" being          *)
(* substring containment.                                                   *)
C4_AsStated ==
    pc = "api" =>
        LET m == env.modsEnum
            s == mods_str
        IN  /\ HasFlag(m, Nightcore)
                 => Contains(s, Code("N", "C")) /\ ~Contains(s, Code("D", "T"))
            /\ HasFlag(m, Perfect)
                 => Contains(s, Code("P", "F")) /\ ~Contains(s, Code("S", "D"))
            /\ Contains(s, Code("D", "T"))
                 <=> (HasFlag(m, DoubleTime) /\ ~HasFlag(m, Nightcore))
            /\ Contains(s, Code("S", "D"))
                 <=> (HasFlag(m, SuddenDeath) /\ ~HasFlag(m, Perfect))

(* C4 amended: the same statement about the two-letter codes the returned   *)
(* string is made of (read at offsets 0, 2, 4, ...).                        *)
C4_ModsStringCodes ==
    pc = "api" =>
        LET m == env.modsEnum
            s == mods_str
        IN  /\ HasFlag(m, Nightcore)
                 => HasCode(s, Code("N", "C")) /\ ~HasCode(s, Code("D", "T"))
            /\ HasFlag(m, Perfect)
                 => HasCode(s, Code("P", "F")) /\ ~HasCode(s, Code("S", "D"))
            /\ HasCode(s, Code("D", "T"))
                 <=> (HasFlag(m, DoubleTime) /\ ~HasFlag(m, Nightcore))
            /\ HasCode(s, Code("S", "D"))
                 <=> (HasFlag(m, SuddenDeath) /\ ~HasFlag(m, Perfect))

C4_Witness ==
    /\ pc = "api"
    /\ env.modsEnum = Nightcore + DoubleTime + Hidden + TouchDevice
    /\ mods_str = Code("N", "C") \o Code("H", "D") \o Code("T", "D")

(* The difficulty names equal ignoring case and surrounding spaces. *)
SameName(i) == NormalizeName(env.beatmaps[i].version) = NormalizeName(env.replayDifficulty)
NamedMaps == {i \in 1..Len(env.beatmaps) : SameName(i)}
Least(S) == CHOOSE i \in S : \A j \in S : i <= j

(* Distance in hundredths of a star between beatmap i and the description. *)
StarDistance(i) == Abs(env.beatmaps[i].difficulty_rating - env.desc_stars)
RatedMaps == {i \in 1..Len(env.beatmaps) : env.beatmaps[i].difficulty_rating # 0}
NearestMaps == {i \in RatedMaps : \A j \in RatedMaps : StarDistance(i) <= StarDistance(j)}

(* C5: when some beatmap of the set has the render-service difficulty name  *)
(* (ignoring case and surrounding whitespace), the first such beatmap in    *)
(* list order is the one selected: its id and max_combo are used, whatever  *)
(* the star ratings are.                                                    *)
C5_FirstNameMatchSelected ==
    (LookedUp /\ NamedMaps # {})
        => /\ found_map
           /\ beatmap_id = env.beatmaps[Least(NamedMaps)].id
           /\ beatmap_max_combo = env.beatmaps[Least(NamedMaps)].max_combo

C5_Witness ==
    /\ pc = "done"
    /\ LookedUp
    /\ NamedMaps = {1, 2}
    /\ env.desc_stars = DescStars
    /\ StarDistance(2) < StarDistance(1)
    /\ env.beatmaps[2].difficulty_rating # 0
    /\ beatmap_id = env.beatmaps[1].id
    /\ beatmap_max_combo = 100

C7_NoBeatmapReducedFidelity ==
    (LookedUp /\ ~found_map)
        => /\ \A i \in 1..Len(net) : net[i] \notin {"score", "attributes"}
           /\ \/ pc \in {"draw", "save", "done"}
              \/ pc = "raised" /\ ~(env.makedirs_ok /\ env.save_ok)
           /\ fetched_pp = 0
           /\ rank = RankD
           /\ ~is_true_fc
           /\ mods_str = get_mods_string(env.modsEnum)
           /\ final_mods_enum = env.modsEnum
           /\ stars = env.desc_stars

C7_Witness ==
    /\ pc = "done"
    /\ file_written
    /\ LookedUp
    /\ ~found_map
    /\ Len(env.beatmaps) = 2
    /\ env.desc_stars = DescStars
    /\ RatedMaps # {}

(* The combo check of a read score holds / cannot hold. *)
ComboReached ==
    /\ beatmap_max_combo # None
    /\ score_max_combo # None
    /\ score_max_combo >= beatmap_max_combo
ComboNotReached ==
    \/ beatmap_max_combo = None
    \/ score_max_combo # None /\ score_max_combo < beatmap_max_combo

(* C8: for a score returned by the API, is_true_fc is False whenever the    *)
(* miss count is not 0, and True whenever it is 0 and the score's max_combo *)
(* reaches the known max_combo of the beatmap, no theoretical PP having     *)
(* been computed.                                                           *)
C8_MissAndCombo ==
    ScoreRead
        => /\ miss_count # 0 => ~is_true_fc
           /\ (miss_count = 0 /\ ComboReached)
                => is_true_fc /\ theoretical_pp = None

C8_Witness ==
    /\ pc = "done"
    /\ ScoreRead
    /\ miss_count = 0
    /\ score_max_combo = 100
    /\ beatmap_max_combo = 100
    /\ ~env.rosu_available
    /\ is_true_fc

C10_NoTheoreticalPPNoBadge ==
    (/\ ScoreRead /\ miss_count = 0 /\ ComboNotReached
     /\ (~env.rosu_available \/ ~osu_file_content \/ ~env.calc_ok))
        => /\ theoretical_pp = None
           /\ ~is_true_fc
           /\ fetched_pp = (IF env.score_pp = None THEN 0 ELSE env.score_pp)
           /\ rank = env.score_rank

C10_Witness ==
    /\ pc = "done"
    /\ ScoreRead
    /\ miss_count = 0
    /\ score_max_combo = 50
    /\ beatmap_max_combo = 100
    /\ env.rosu_available /\ ~osu_file_content /\ env.calc_ok
    /\ fetched_pp = 39
    /\ env.calc_pp = 39
    /\ theoretical_pp = None
    /\ ~is_true_fc

(* The metadata step has succeeded, and the later steps a run has passed. *)
MetadataRead ==
    /\ pc # "start"
    /\ MetadataFailure(env.url, env.ordr_ok, env.mapID) = "none"
BackgroundSettled == MetadataRead /\ pc \notin {"api", "mirror", "background"}
BaseCreated == BackgroundSettled /\ bg_image /\ pc # "base"
LookupOver ==
    BaseCreated /\ pc \notin {"avatar", "lookup", "score", "attributes"}
Requested(what) == \E i \in 1..Len(net) : net[i] = what

(* C11: after the scale-then-crop step the canvas is exactly 1920x1080 and  *)
(* the crop rectangle lies inside the resized image: both offsets are >= 0, *)
(* offset + 1920 <= resized width and offset + 1080 <= resized height.      *)
C11_CropInsideResized ==
    BaseCreated
        => /\ canvas.width = 1920
           /\ canvas.height = 1080
           /\ canvas.x_crop >= 0
           /\ canvas.y_crop >= 0
           /\ canvas.x_crop + 1920 <= canvas.new_width
           /\ canvas.y_crop + 1080 <= canvas.new_height

(* C12: a pasted avatar of 450x450 has its centre at (960, 540); the left   *)
(* texts (accuracy, mods) end 30 px left of the avatar's left edge and the  *)
(* right texts (PP, stars) start 30 px right of its right edge, whatever    *)
(* was fetched.                                                             *)
C12_AvatarCentredFixedOffsets ==
    /\ avatar_pos # <<None, None>>
         => /\ avatar_pos[1] + 225 = 960
            /\ avatar_pos[2] + 225 = 540
    /\ layout.left_x_end # None
         => /\ layout.acc_x + env.acc_width = (960 - 225) - 30
            /\ layout.mods_x + env.mods_width = (960 - 225) - 30
            /\ layout.pp_x = (960 + 225) + 30
            /\ layout.stars_x = (960 + 225) + 30

C12_Witness ==
    /\ pc = "done"
    /\ score_found
    /\ avatar_pos = <<735, 315>>
    /\ env.mods_width = 800
    /\ env.acc_width = 200
    /\ layout.mods_x = -95
    /\ layout.acc_x = 505
    /\ layout.pp_x = 1215
    /\ env.bg_width = 800

(* C13: the mirror download is attempted in every run that gets past the    *)
(* metadata, and before any cover request; the cover is requested only if   *)
(* the mirror produced no image and beatmap-set data was fetched; with no   *)
(* image from either source the run raises ValueError and writes no file.   *)
C13_BackgroundSourceOrder ==
    /\ (MetadataRead /\ pc \notin {"api", "mirror"}) => Requested("mirror")
    /\ \A i \in 1..Len(net) :
         net[i] = "cover"
           => /\ \E j \in 1..(i - 1) : net[j] = "mirror"
              /\ ~env.mirror_bg
              /\ beatmapset_data
    /\ (BackgroundSettled /\ ~bg_image)
         => /\ pc = "raised"
            /\ outcome = "ValueError"
            /\ ~file_written
    /\ (BackgroundSettled /\ bg_image)
         => (env.mirror_bg \/ (Requested("cover") /\ env.cover_ok))

C13_Witness ==
    /\ pc = "done"
    /\ file_written
    /\ ~env.mirror_bg
    /\ net[1] = "ordr"
    /\ \E i \in 1..Len(net) : net[i] = "mirror" /\ net[i + 1] = "cover"

(* C14: without client_id or client_secret no request goes to the osu! API  *)
(* (token, beatmap set, user, score, attributes), and a run whose mirror    *)
(* download yields a background ends with the thumbnail saved unless the    *)
(* output directory or file cannot be written.                              *)
C14_ApiOptional ==
    ~env.creds
        => /\ \A i \in 1..Len(net) :
                net[i] \notin {"token", "beatmapset", "user", "score", "attributes"}
           /\ (pc = "raised" /\ MetadataRead /\ env.mirror_bg)
                => ~(env.makedirs_ok /\ env.save_ok)
           /\ pc = "done" => file_written

C14_Witness ==
    /\ pc = "done"
    /\ ~env.creds
    /\ file_written
    /\ net = <<"ordr", "mirror">>
    /\ layout.pp_x = 1215

(* C15: once the lookup is over, a run in which no API score was obtained   *)
(* (no lookup, no beatmap, no score in the response, or an exception in the *)
(* lookup block) has PP 0, rank D and is_true_fc False.                     *)
C15_DefaultsWithoutScore ==
    (LookupOver /\ (~score_found \/ lookup_error # "none"))
        => /\ fetched_pp = 0
           /\ rank = <<"D">>
           /\ ~is_true_fc

C15_Witness ==
    /\ pc = "done"
    /\ score_found
    /\ lookup_error = "fc"
    /\ env.score_pp = 39
    /\ env.score_rank = <<"A">>
    /\ env.count_miss = None
    /\ fetched_pp = 0
    /\ rank = <<"D">>

(* The mods the render-service modsEnum gives. *)
OrdrMods ==
    /\ mods_str = get_mods_string(env.modsEnum)
    /\ final_mods_enum = env.modsEnum

C17_NoRaiseAfterBackground ==
    (BaseCreated /\ pc = "raised") => ~(env.makedirs_ok /\ env.save_ok)

(* The codes MOD_STRING_TO_ENUM knows, those a string is made of, and those *)
(* of the bits set in a mods integer (DT omitted under NC, SD under PF).    *)
AllCodes ==
    {Code("N", "F"), Code("E", "Z"), Code("T", "D"), Code("H", "D"), Code("H", "R"),
     Code("S", "D"), Code("D", "T"), Code("R", "X"), Code("H", "T"), Code("N", "C"),
     Code("F", "L"), Code("A", "U"), Code("S", "O"), Code("A", "P"), Code("P", "F"),
     Code("K", "4"), Code("K", "5"), Code("K", "6"), Code("K", "7"), Code("K", "8"),
     Code("F", "I"), Code("R", "D"), Code("C", "N"), Code("T", "P"), Code("K", "9"),
     Code("K", "C"), Code("K", "1"), Code("K", "3"), Code("K", "2"), Code("V", "2"),
     Code("M", "R")}
StringCodes(s) == {SubSeq(s, 2 * k + 1, 2 * k + 2) : k \in 0..((Len(s) \div 2) - 1)}
Omitted(c, value) ==
    \/ c = Code("D", "T") /\ HasFlag(value, Nightcore)
    \/ c = Code("S", "D") /\ HasFlag(value, Perfect)
EnumCodes(value) ==
    {c \in AllCodes : HasFlag(value, MOD_STRING_TO_ENUM(c)) /\ ~Omitted(c, value)}
AtModsText == LookupOver /\ pc \in {"draw", "save", "done"}

(* C18 as stated: where the mods text is drawn, the string is "NM" exactly  *)
(* when final_mods_enum is 0, and otherwise its two-letter codes are        *)
(* exactly the codes of the bits set in final_mods_enum.                    *)
C18_AsStated ==
    AtModsText
        => /\ mods_str = NM <=> final_mods_enum = NoMod
           /\ mods_str # NM => StringCodes(mods_str) = EnumCodes(final_mods_enum)

(* C18 amended: where the mods text is drawn, if a non-empty API mods list  *)
(* was read the string is its concatenation and final_mods_enum has exactly *)
(* the bits of the listed codes that MOD_STRING_TO_ENUM knows, plus DT      *)
(* under NC and SD under PF; otherwise the codes of the string are exactly  *)
(* the codes of the bits set in final_mods_enum other than Autoplay, and    *)
(* the string is "NM" exactly when there is no such bit.                    *)
C18_ModsStringMatchesEnum ==
    AtModsText
        => IF score_found /\ api_mods_list # <<>>
             THEN /\ mods_str = Join(api_mods_list)
                  /\ \A c \in AllCodes :
                       HasFlag(final_mods_enum, MOD_STRING_TO_ENUM(c))
                         <=> \/ InList(c, api_mods_list)
                             \/ c = Code("D", "T") /\ InList(Code("N", "C"), api_mods_list)
                             \/ c = Code("S", "D") /\ InList(Code("P", "F"), api_mods_list)
             ELSE LET shown == EnumCodes(final_mods_enum) \ {Code("A", "U")}
                  IN  /\ mods_str = NM <=> shown = {}
                      /\ mods_str # NM => StringCodes(mods_str) = shown

C18_Witness ==
    /\ pc = "done"
    /\ score_found
    /\ api_mods_list = <<Code("C", "L"), Code("N", "C")>>
    /\ mods_str = Code("C", "L") \o Code("N", "C")
    /\ final_mods_enum = Nightcore + DoubleTime

(* The base rating of the matched beatmap. *)
MatchedRating ==
    env.beatmaps[CHOOSE i \in 1..Len(env.beatmaps) :
                    env.beatmaps[i].id = beatmap_id].difficulty_rating

(* C19: the star value drawn is the modded rating of the attributes         *)
(* response when that request succeeded and returned one; otherwise the     *)
(* description's rating if it is not 0; otherwise the matched beatmap's     *)
(* base rating; otherwise 0.                                                *)
C19_StarPrecedence ==
    LookupOver
        => stars = IF Requested("attributes") /\ env.attr_ok /\ env.attr_stars # None
                     THEN env.attr_stars
                   ELSE IF env.desc_stars # 0 THEN env.desc_stars
                   ELSE IF found_map THEN MatchedRating
                   ELSE 0

C19_Witness ==
    /\ pc = "done"
    /\ Requested("attributes")
    /\ ~env.attr_ok
    /\ env.attr_stars = 620
    /\ env.desc_stars = 0
    /\ found_map
    /\ stars = 505

(* C20: an empty or unrecognised URL raises ValueError before any request,  *)
(* and metadata without a mapID raises ValueError before any osu! API or    *)
(* mirror request (only the render service has been asked); no file is      *)
(* written.                                                                 *)
C20_InputsValidatedFirst ==
    /\ (env.url # "ok" /\ pc # "start")
         => /\ pc = "raised"
            /\ outcome = "ValueError"
            /\ net = <<>>
            /\ ~file_written
    /\ (env.url = "ok" /\ env.ordr_ok /\ ~env.mapID /\ pc # "start")
         => /\ pc = "raised"
            /\ outcome = "ValueError"
            /\ net = <<"ordr">>
            /\ ~file_written

C20_Witness ==
    /\ pc = "raised"
    /\ env.url = "ok"
    /\ ~env.mapID
    /\ outcome = "ValueError"
    /\ net = <<"ordr">>

(* Worker.run has been called and has ended. *)
WorkerRunOver == pc \in {"done", "raised"} /\ ~ENABLED WorkerRun

(* C21: Worker.run emits the finished signal exactly once on every path:    *)
(* nothing is emitted while create_thumbnail is running, and once run has   *)
(* ended exactly one signal has been emitted, with success = True if and    *)
(* only if create_thumbnail returned, and success = False for every         *)
(* exception (ValueError, RuntimeError or any other); no exception leaves   *)
(* run.                                                                     *)
C21_FinishedExactlyOnce ==
    /\ escaped = "none"
    /\ (pc \notin {"done", "raised"}) => (finished = <<>>)
    /\ WorkerRunOver =>
          /\ Len(finished) = 1
          /\ finished[1].success = (outcome = "returned")
          /\ (outcome # "returned") => (outcome \in Outcomes /\ ~finished[1].success)

(* A run that ended with an exception that is neither a ValueError nor a    *)
(* RuntimeError, after the signal was emitted.                              *)
C21_Witness ==
    /\ WorkerRunOver
    /\ outcome \in {"TypeError", "OSError"}
    /\ Len(finished) = 1
    /\ ~finished[1].success

(* Thread k's worker is inside create_thumbnail. *)
Executing(k) == qthreads[k].state = "running"

(* The slot call `slot` of thread k is queued and not yet delivered. *)
Pending(slot, k) ==
    \E i \in 1..Len(events) : events[i].slot = slot /\ events[i].of = k

(* A generation was started on thread k and on_generation_complete has not  *)
(* run for it yet.                                                          *)
Generating(k) ==
    \/ qthreads[k].state \in {"started", "running"}
    \/ Pending("on_generation_complete", k)

(* C22: at most one execution of create_thumbnail is in flight at any time: *)
(* the action button is disabled from the moment a generation is started    *)
(* until on_generation_complete runs for it, and whenever a thread has been *)
(* started the run of every worker started before it has already emitted    *)
(* finished.                                                                *)
C22_OneExecutionInFlight ==
    /\ Cardinality({k \in 1..MaxThreads : Executing(k)}) <= 1
    /\ \A k \in 1..MaxThreads : Generating(k) => ~action_button_enabled
    /\ \A j \in 1..MaxThreads, k \in 1..MaxThreads :
          (j < k /\ qthreads[k].state # "new")
             => qthreads[j].state \in {"emitted", "finished"}

(* A second generation is executing while the thread of the first one has   *)
(* not finished yet: its run is over, and the button is disabled again.     *)
C22_Witness ==
    /\ qthreads[1].state = "emitted"
    /\ qthreads[2].state = "running"
    /\ ~action_button_enabled

(* The thread created last, None before the first generation. *)
LatestThread == IF NextThread = 1 THEN None ELSE NextThread - 1

(* C23: under every interleaving of clicks, worker completion and thread    *)
(* finished notifications, while the thread started last is running,        *)
(* self.thread and self.worker refer to it: a _clear_thread_ref queued by   *)
(* an earlier thread's finished signal does not clear the reference to a    *)
(* thread started afterwards.                                               *)
C23_ThreadRefKept ==
    \A k \in 1..MaxThreads :
        (k = LatestThread /\ isRunning(k)) => (thread = k /\ worker = k)

(* This step creates and starts a thread. *)
StartsWorker ==
    \E k \in 1..MaxThreads : qthreads[k].state = "new" /\ qthreads'[k].state # "new"

(* C24: the generate view is shown only after verify_credentials has        *)
(* returned True (at start-up with stored credentials or in a Verify        *)
(* click); once shown it is never replaced by the credential view; and no   *)
(* worker is started while the credential view is shown.                    *)
C24_GenerateViewOnlyVerified ==
    /\ [](~ordr_widget_hidden => verified)
    /\ [][~ordr_widget_hidden => ~ordr_widget_hidden']_vars
    /\ [][StartsWorker => (~ordr_widget_hidden /\ verified)]_vars

(* A worker started in the generate view, which was reached after a         *)
(* successful verification.                                                 *)
C24_Witness ==
    /\ ~ordr_widget_hidden
    /\ verified
    /\ qthreads[1].state = "started"
    /\ thread = 1

====
